---- MODULE Spec2Model ----
(***************************************************************************)
(* A model of polyfile: the Aho-Corasick multi-sequence search of          *)
(* polyfile/search.py and the parser registry, match tree and recursive    *)
(* matcher of polyfile/polyfile.py.                                        *)
(***************************************************************************)
EXTENDS Integers, Sequences, FiniteSets, TLC

(***************************************************************************)
(* Bounds of the exploration.                                              *)
(***************************************************************************)
MaxSeqLen == 2      \* longest sequence handed to TrieNode.add
MaxAdds == 3        \* number of add calls on one trie
MaxInputLen == 3    \* longest input handed to search

Alphabet == {"a", "b"}

Range(s) == {s[i] : i \in 1..Len(s)}

SeqsUpTo(n) == UNION {[1..k -> Alphabet] : k \in 0..n}
Patterns == SeqsUpTo(MaxSeqLen) \ {<<>>}
Inputs == SeqsUpTo(MaxInputLen)

VARIABLES
    trie,            \* the ACNode tree: root path -> [sources, fall]
    added,           \* the sequences handed to add so far
    adds,            \* number of add calls so far
    finalized,       \* finalize has run at least once
    stale,           \* a sequence was added after the last finalize
    source_sequence, \* the input of the running search
    stream_offset,   \* index of the element search is at
    state,           \* search's current trie position
    n,               \* the node search's inner loops are at
    pend,            \* sources of n not yet yielded
    found,           \* the pairs search has yielded, in order
    spc              \* where search is: idle, scan, emit, done, error

searchVars == <<trie, added, adds, finalized, stale, source_sequence,
                stream_offset, state, n, pend, found, spc>>

VARIABLES
    PARSERS,         \* the registry: MIME type -> set of Parser objects
    wrappers,        \* number of ParserFunctionWrapper objects created
    registered       \* the (MIME type, capability) pairs ever registered

regVars == <<PARSERS, wrappers, registered>>

VARIABLES
    nodes            \* every Match constructed so far, by identity 1..Len

VARIABLES
    parse,           \* Matcher.parse
    stack,           \* the live Matcher.match generators, outermost first
    out,             \* the nodes the consumer has received, in order
    status,          \* idle, running, exhausted, fault, closed
    atYield,         \* the outer generator is suspended at a yield
    openWindows,     \* the FileStream windows entered and not yet left
    invoked,         \* number of parser invocations so far
    rejected,        \* candidates whose parser raised InvalidMatch in the probe
    faulted          \* attempts whose parser failed after its first element

matchVars == <<parse, stack, out, status, atYield, openWindows, invoked,
               rejected, faulted>>

VARIABLES
    runs,            \* the search generators of one automaton, by number
    iter             \* the iteration order of the source sets iterated so far

runVars == <<runs, iter>>

vars == <<searchVars, regVars, nodes, matchVars, runVars>>

(***************************************************************************)
(* search.py: TrieNode and ACNode.  A node is named by the sequence of     *)
(* values on the way from the root to it; the root is the empty sequence.  *)
(***************************************************************************)
Root == <<>>
NoFall == <<"None">>      \* ACNode._fall before finalize has set it

ACNode == [sources |-> {}, fall |-> NoFall]

\* TrieNode.__contains__ for a single value: value in self._children
HasChild(t, node, c) == Append(node, c) \in DOMAIN t

\* TrieNode.__getitem__
Child(node, c) == Append(node, c)

\* ACNode._add_child: a fresh node under `node`, no sources, no failure link
AddChild(t, node, c) ==
    [p \in (DOMAIN t) \cup {Append(node, c)} |->
        IF p = Append(node, c) THEN ACNode ELSE t[p]]

AddSource(t, node, source) ==
    [t EXCEPT ![node].sources = @ \cup {source}]

\* TrieNode._add: walk existing children; the first missing child is
\* created, the loop is left (break) and the source is put on that child.
RECURSIVE TrieAdd(_, _, _, _)
TrieAdd(t, node, sequence, source) ==
    IF Len(sequence) = 0
    THEN AddSource(t, node, source)
    ELSE LET first == Head(sequence) IN
         IF HasChild(t, node, first)
         THEN TrieAdd(t, Child(node, first), Tail(sequence), source)
         ELSE AddSource(AddChild(t, node, first), Child(node, first), source)

\* TrieNode.add
add(t, sequence) == TrieAdd(t, Root, sequence, sequence)

\* TrieNode.find: walk the elements down from `node`; at the end, whether
\* the node reached holds a source
RECURSIVE find(_, _, _)
find(t, node, sequence) ==
    IF Len(sequence) = 0
    THEN t[node].sources # {}
    ELSE IF ~HasChild(t, node, Head(sequence))
         THEN FALSE
         ELSE find(t, Child(node, Head(sequence)), Tail(sequence))

\* TrieNode.__iter__: the children of a node
Children(t, node) ==
    {p \in DOMAIN t : Len(p) = Len(node) + 1 /\ SubSeq(p, 1, Len(node)) = node}

\* TrieNode.find_prefix, as the set of what it yields: below the node the
\* prefix leads to, the sources of every node
RECURSIVE find_prefix(_, _, _)
find_prefix(t, node, prefix) ==
    IF Len(prefix) = 0
    THEN t[node].sources \cup
         UNION {find_prefix(t, child, prefix) : child \in Children(t, node)}
    ELSE IF HasChild(t, node, Head(prefix))
         THEN find_prefix(t, Child(node, Head(prefix)), Tail(prefix))
         ELSE {}

\* ACNode.finalize, the while loop of one node: follow failure links until
\* a node with a child of this value, or the root
RECURSIVE FallWalk(_, _, _)
FallWalk(t, new_fall, v) ==
    IF ~HasChild(t, new_fall, v) /\ new_fall # Root
    THEN FallWalk(t, t[new_fall].fall, v)
    ELSE new_fall

\* a finalize that links every node to the root
NewFall_Root(t, node) == Root

\* ACNode.finalize, the body of the loop for one node
NewFall(t, node) ==
    LET v == node[Len(node)]
        parent == SubSeq(node, 1, Len(node) - 1)
        new_fall == FallWalk(t, t[parent].fall, v)
    IN  IF ~HasChild(t, new_fall, v)
        THEN Root
        ELSE IF Child(new_fall, v) = node THEN Root ELSE Child(new_fall, v)

\* ACNode.finalize over bfs(): a node is visited after every shallower
\* node, and its link is computed from links of shallower nodes only, so
\* one depth is done at a time.
RECURSIVE FinalizeLevel(_, _)
FinalizeLevel(t, d) ==
    LET lvl == {p \in DOMAIN t : Len(p) = d} IN
    IF lvl = {} THEN t
    ELSE FinalizeLevel(
            [p \in DOMAIN t |->
                IF p \in lvl THEN [t[p] EXCEPT !.fall = NewFall(t, p)]
                ELSE t[p]],
            d + 1)

finalize(t) == FinalizeLevel([t EXCEPT ![Root].fall = Root], 1)

(***************************************************************************)
(* search.py: MultiSequenceSearch.search, one generator.                   *)
(***************************************************************************)
\* lines 179-180: while c not in n and n is not self.trie: n = n.fall
\* (an unset link makes `c not in None` raise: the result is NoFall)
RECURSIVE Descend(_, _, _)
Descend(t, node, c) ==
    IF node = NoFall THEN NoFall
    ELSE IF ~HasChild(t, node, c) /\ node # Root
         THEN Descend(t, t[node].fall, c)
         ELSE node

\* lines 182-186: take the edge, the root stays put without one
Goto(t, node, c) ==
    IF node = Root
    THEN IF HasChild(t, node, c) THEN Child(node, c) ELSE node
    ELSE Child(node, c)

InitSearch ==
    /\ trie = [p \in {Root} |-> ACNode]
    /\ added = {}
    /\ adds = 0
    /\ finalized = FALSE
    /\ stale = FALSE
    /\ source_sequence = <<>>
    /\ stream_offset = 0
    /\ state = Root
    /\ n = Root
    /\ pend = {}
    /\ found = <<>>
    /\ spc = "idle"

\* trie.add(seq), in MultiSequenceSearch.__init__ or on mss.trie later
Add(seq) ==
    /\ spc = "idle"
    /\ adds < MaxAdds
    /\ trie' = add(trie, seq)
    /\ added' = added \cup {seq}
    /\ adds' = adds + 1
    /\ stale' = finalized
    /\ UNCHANGED <<runVars, regVars, nodes, matchVars>>
    /\ UNCHANGED <<finalized, source_sequence, stream_offset, state, n,
                   pend, found, spc>>

\* trie.finalize()
Finalize ==
    /\ spc = "idle"
    /\ trie' = finalize(trie)
    /\ finalized' = TRUE
    /\ stale' = FALSE
    /\ UNCHANGED <<runVars, regVars, nodes, matchVars>>
    /\ UNCHANGED <<added, adds, source_sequence, stream_offset, state, n,
                   pend, found, spc>>

\* mss.search(T): the generator is created, state = self.trie
SearchStart(T) ==
    /\ spc = "idle"
    /\ finalized
    /\ source_sequence' = T
    /\ stream_offset' = 0
    /\ state' = Root
    /\ n' = Root
    /\ pend' = {}
    /\ found' = <<>>
    /\ spc' = "scan"
    /\ UNCHANGED <<runVars, regVars, nodes, matchVars>>
    /\ UNCHANGED <<trie, added, adds, finalized, stale>>

\* lines 176-188: the next element is read and the automaton moves
SearchStep ==
    /\ spc = "scan"
    /\ stream_offset < Len(source_sequence)
    /\ LET c == source_sequence[stream_offset + 1]
           d == Descend(trie, state, c)
       IN  IF d = NoFall
           THEN /\ spc' = "error"
                /\ UNCHANGED <<state, n, pend>>
           ELSE /\ state' = Goto(trie, d, c)
                /\ n' = Goto(trie, d, c)
                /\ pend' = IF Goto(trie, d, c) = Root THEN {}
                           ELSE trie[Goto(trie, d, c)].sources
                /\ spc' = "emit"
    /\ UNCHANGED <<runVars, regVars, nodes, matchVars>>
    /\ UNCHANGED <<trie, added, adds, finalized, stale, source_sequence,
                   stream_offset, found>>

\* line 191: one (stream_offset, source) is yielded; the sources of a node
\* are a set, iterated in no fixed order
SearchYield ==
    /\ spc = "emit"
    /\ \E source \in pend :
        /\ found' = Append(found, <<stream_offset, source>>)
        /\ pend' = pend \ {source}
    /\ UNCHANGED <<runVars, regVars, nodes, matchVars>>
    /\ UNCHANGED <<trie, added, adds, finalized, stale, source_sequence,
                   stream_offset, state, n, spc>>

\* lines 190 and 192: n = n.fall until the root; an unset link makes
\* n.sources raise
SearchFall ==
    /\ spc = "emit"
    /\ pend = {}
    /\ IF n = Root
       THEN /\ stream_offset' = stream_offset + 1
            /\ spc' = "scan"
            /\ UNCHANGED <<n, pend>>
       ELSE LET f == trie[n].fall IN
            IF f = NoFall
            THEN /\ spc' = "error"
                 /\ n' = f
                 /\ UNCHANGED <<stream_offset, pend>>
            ELSE /\ n' = f
                 /\ pend' = IF f = Root THEN {} ELSE trie[f].sources
                 /\ UNCHANGED <<stream_offset, spc>>
    /\ UNCHANGED <<runVars, regVars, nodes, matchVars>>
    /\ UNCHANGED <<trie, added, adds, finalized, stale, source_sequence,
                   state, found>>

\* the input is exhausted: the generator returns
SearchEnd ==
    /\ spc = "scan"
    /\ stream_offset = Len(source_sequence)
    /\ spc' = "done"
    /\ UNCHANGED <<runVars, regVars, nodes, matchVars>>
    /\ UNCHANGED <<trie, added, adds, finalized, stale, source_sequence,
                   stream_offset, state, n, pend, found>>

\* the finished generator is dropped, and its locals with it; the automaton
\* can be used again
SearchDrop ==
    /\ spc \in {"done", "error"}
    /\ spc' = "idle"
    /\ source_sequence' = <<>>
    /\ stream_offset' = 0
    /\ state' = Root
    /\ n' = Root
    /\ pend' = {}
    /\ found' = <<>>
    /\ UNCHANGED <<runVars, regVars, nodes, matchVars>>
    /\ UNCHANGED <<trie, added, adds, finalized, stale>>

NextSearch ==
    \/ \E seq \in Patterns : Add(seq)
    \/ Finalize
    \/ \E T \in Inputs : SearchStart(T)
    \/ SearchStep
    \/ SearchYield
    \/ SearchFall
    \/ SearchEnd
    \/ SearchDrop

\* a trie that is only built and finalized
NextTrie ==
    \/ \E seq \in Patterns : Add(seq)
    \/ Finalize

(***************************************************************************)
(* search.py: several search generators over one MultiSequenceSearch.      *)
(* Each has its own locals; the trie is shared.  A node's sources are a    *)
(* set: the order in which it is iterated is not defined, but iterating    *)
(* the same unchanged set again gives the same order; `iter` keeps the     *)
(* order of each set from the first time it is iterated.                   *)
(***************************************************************************)
RunIds == {1, 2}

\* the argument lists of MultiSequenceSearch(*sequences_to_find)
PatternLists == UNION {[1..k -> Patterns] : k \in 0..MaxAdds}

\* the loop of lines 158-159
RECURSIVE AddAll(_, _)
AddAll(t, seqs) ==
    IF seqs = <<>> THEN t ELSE AddAll(add(t, Head(seqs)), Tail(seqs))

\* a generator that has not been created
NoRun ==
    [source_sequence |-> <<>>, stream_offset |-> 0, state |-> Root,
     n |-> Root, pend |-> <<>>, found |-> <<>>, spc |-> "idle"]

\* the orders in which a set can be iterated
Orders(S) == {o \in [1..Cardinality(S) -> S] : Range(o) = S}

\* the orders in which the sources of `node` can come now
OrderAt(it, t, node) ==
    IF node = Root THEN {<<>>}
    ELSE IF node \in DOMAIN it THEN {it[node]}
    ELSE Orders(t[node].sources)

\* an iteration that leaves no trace of its order
Remember_Forget(it, node, o) == it

\* the order a set was iterated in is the order it is iterated in again
Remember(it, node, o) ==
    IF node = Root THEN it
    ELSE [q \in (DOMAIN it) \cup {node} |-> IF q = node THEN o ELSE it[q]]

InitRuns ==
    /\ runs = [i \in RunIds |-> NoRun]
    /\ iter = [q \in {} |-> <<>>]

\* MultiSequenceSearch(*seqs): every sequence is added, then finalize
MSSInit(seqs) ==
    /\ adds = 0 /\ ~finalized /\ spc = "idle"
    /\ trie' = finalize(AddAll(trie, seqs))
    /\ added' = Range(seqs)
    /\ adds' = Len(seqs)
    /\ finalized' = TRUE
    /\ stale' = FALSE
    /\ UNCHANGED <<runVars, regVars, nodes, matchVars>>
    /\ UNCHANGED <<source_sequence, stream_offset, state, n, pend, found, spc>>

\* mss.search(T): one more generator over the same automaton and input
RunStart(i, T) ==
    /\ finalized
    /\ runs[i].spc = "idle"
    /\ \A j \in RunIds : runs[j].spc # "idle" => runs[j].source_sequence = T
    /\ runs' = [runs EXCEPT ![i] =
                    [NoRun EXCEPT !.source_sequence = T, !.spc = "scan"]]
    /\ UNCHANGED <<iter, searchVars, regVars, nodes, matchVars>>

\* lines 176-188 in generator i
RunStep(i) ==
    /\ runs[i].spc = "scan"
    /\ runs[i].stream_offset < Len(runs[i].source_sequence)
    /\ LET c == runs[i].source_sequence[runs[i].stream_offset + 1]
           d == Descend(trie, runs[i].state, c)
       IN  IF d = NoFall
           THEN /\ runs' = [runs EXCEPT ![i].spc = "error"]
                /\ UNCHANGED iter
           ELSE \E o \in OrderAt(iter, trie, Goto(trie, d, c)) :
                /\ runs' = [runs EXCEPT ![i].state = Goto(trie, d, c),
                                        ![i].n = Goto(trie, d, c),
                                        ![i].pend = o,
                                        ![i].spc = "emit"]
                /\ iter' = Remember(iter, Goto(trie, d, c), o)
    /\ UNCHANGED <<searchVars, regVars, nodes, matchVars>>

\* line 191 in generator i: the next source of the node is yielded
RunYield(i) ==
    /\ runs[i].spc = "emit"
    /\ runs[i].pend # <<>>
    /\ runs' = [runs EXCEPT
            ![i].found = Append(@, <<runs[i].stream_offset,
                                     Head(runs[i].pend)>>),
            ![i].pend = Tail(@)]
    /\ UNCHANGED <<iter, searchVars, regVars, nodes, matchVars>>

\* lines 190 and 192 in generator i
RunFall(i) ==
    /\ runs[i].spc = "emit"
    /\ runs[i].pend = <<>>
    /\ IF runs[i].n = Root
       THEN /\ runs' = [runs EXCEPT ![i].stream_offset = @ + 1,
                                    ![i].spc = "scan"]
            /\ UNCHANGED iter
       ELSE LET f == trie[runs[i].n].fall IN
            IF f = NoFall
            THEN /\ runs' = [runs EXCEPT ![i].n = f, ![i].spc = "error"]
                 /\ UNCHANGED iter
            ELSE \E o \in OrderAt(iter, trie, f) :
                 /\ runs' = [runs EXCEPT ![i].n = f, ![i].pend = o]
                 /\ iter' = Remember(iter, f, o)
    /\ UNCHANGED <<searchVars, regVars, nodes, matchVars>>

\* the input of generator i is exhausted
RunEnd(i) ==
    /\ runs[i].spc = "scan"
    /\ runs[i].stream_offset = Len(runs[i].source_sequence)
    /\ runs' = [runs EXCEPT ![i].spc = "done"]
    /\ UNCHANGED <<iter, searchVars, regVars, nodes, matchVars>>

\* generator i is dropped, finished or partly consumed
RunDrop(i) ==
    /\ runs[i].spc # "idle"
    /\ runs' = [runs EXCEPT ![i] = NoRun]
    /\ UNCHANGED <<iter, searchVars, regVars, nodes, matchVars>>

NextRuns ==
    \/ \E seqs \in PatternLists : MSSInit(seqs)
    \/ \E i \in RunIds, T \in Inputs : RunStart(i, T)
    \/ \E i \in RunIds : RunStep(i)
    \/ \E i \in RunIds : RunYield(i)
    \/ \E i \in RunIds : RunFall(i)
    \/ \E i \in RunIds : RunEnd(i)
    \/ \E i \in RunIds : RunDrop(i)

(***************************************************************************)
(* polyfile.py: the parser registry.  An object is a record; two objects   *)
(* are the same object when they have the same kind and id (Parser and     *)
(* ParserFunctionWrapper define __hash__ and inherit object's __eq__, so   *)
(* a set of them holds one entry per object).                              *)
(***************************************************************************)
MaxWrappers == 3    \* ParserFunctionWrapper objects created in one run

Mimes == {"m1", "m2"}

\* instances of a Parser subclass
ParserInstances ==
    {[kind |-> "Parser", id |-> i, parser |-> "-"] : i \in 1..2}

\* plain parser functions
Functions ==
    {[kind |-> "function", id |-> 0, parser |-> f] : f \in {"f", "g"}}

Capabilities == ParserInstances \cup Functions

\* the *filetypes of one register_parser call
FiletypeArgs == {<<"m1">>, <<"m2">>, <<"m1", "m2">>}

\* ParserFunctionWrapper(parser): a new object around the function
ParserFunctionWrapper(parser, id) ==
    [kind |-> "ParserFunctionWrapper", id |-> id, parser |-> parser.parser]

\* PARSERS is a defaultdict(set): a missing key reads as the empty set
Lookup(P, ft) == IF ft \in DOMAIN P THEN P[ft] ELSE {}

\* ... and reading a missing key stores the empty set under it
Touch(P, ft) == [k \in (DOMAIN P) \cup {ft} |-> Lookup(P, k)]

\* register_parser(*filetypes)(parser): `id` is the identity a new wrapper gets
register_parser(P, filetypes, parser, id) ==
    LET p == IF parser.kind = "function"
             THEN ParserFunctionWrapper(parser, id)
             ELSE parser
    IN  [k \in (DOMAIN P) \cup Range(filetypes) |->
            IF k \in Range(filetypes) THEN Lookup(P, k) \cup {p} ELSE P[k]]

InitReg ==
    /\ PARSERS = [k \in {} |-> {}]
    /\ wrappers = 0
    /\ registered = {}

(***************************************************************************)
(* polyfile.py: Match, the nodes of the tree.  A Match is named by its     *)
(* position in `nodes`; NoParent and NoLength stand for None.              *)
(***************************************************************************)
NoParent == 0
NoLength == -1

\* Match.__init__: the new node is appended to its parent's _children
NewMatch(ns, name, relative_offset, length, parent) ==
    LET self == Len(ns) + 1
        m == [name |-> name, relative_offset |-> relative_offset,
              length |-> length, parent |-> parent, children |-> <<>>]
    IN  Append([i \in 1..Len(ns) |->
                    IF i = parent
                    THEN [ns[i] EXCEPT !.children = Append(@, self)]
                    ELSE ns[i]],
               m)

\* Match.offset
RECURSIVE offset(_, _)
offset(ns, i) ==
    IF ns[i].parent # NoParent
    THEN offset(ns, ns[i].parent) + ns[i].relative_offset
    ELSE ns[i].relative_offset

Max(S) == CHOOSE x \in S : \A y \in S : y <= x

\* a length that forgets to subtract the node's own offset
RECURSIVE length_NoRebase(_, _)
length_NoRebase(ns, i) ==
    IF ns[i].length = NoLength
    THEN IF ns[i].children # <<>>
         THEN Max({offset(ns, c) + length_NoRebase(ns, c) :
                        c \in Range(ns[i].children)})
         ELSE 0
    ELSE ns[i].length

\* Match.length
RECURSIVE length(_, _)
length(ns, i) ==
    IF ns[i].length = NoLength
    THEN IF ns[i].children # <<>>
         THEN Max({offset(ns, c) + length(ns, c) : c \in Range(ns[i].children)})
              - offset(ns, i)
         ELSE 0
    ELSE ns[i].length

InitTree == nodes = <<>>

(***************************************************************************)
(* polyfile.py: Matcher.  A frame is one live Matcher.match generator with *)
(* the handle_mimetype call and the parser invocation running inside it;   *)
(* frame i + 1 is the match a parser of frame i called with its candidate  *)
(* as parent and is draining with `yield from`.  Parsers and the signature *)
(* engine are collaborators: every step they can take is a choice.         *)
(***************************************************************************)
MaxDepth == 2       \* nesting of Matcher.match calls
MaxNodes == 3       \* Match objects constructed in one run
MaxResults == 2     \* test results the signature engine yields per window
DataLen == 4        \* len(context.data)

NoMime == "None"    \* result.test.mime is None

Frame(parent) ==
    [parent |-> parent,          \* the parent argument of match
     seen |-> <<>>,              \* the results consumed from the engine
     matched_mimetypes |-> {},
     handled |-> <<>>,           \* the mimetypes given to handle_mimetype
     pc |-> "results",           \* results, parsers, probe, commit, stream
     mimetype |-> NoMime,
     todo |-> {},                \* parsers the for loop has not reached yet
     m |-> NoParent,             \* the candidate Match of the attempt
     first_submatch |-> NoParent,
     made |-> {},                \* constructed by the parser, not yielded
     yielded |-> <<>>]           \* what the parser has yielded

\* a matcher that forgets the mimetypes it has matched
AlreadyMatched_Never(frame, mimetype) == FALSE

\* line 277: if mimetype in matched_mimetypes: continue
AlreadyMatched(frame, mimetype) == mimetype \in frame.matched_mimetypes

\* the attempt is over: the `with FileStream(...) as fs` block has been left
\* and the for loop over the parsers goes on
EndAttempt(frame) ==
    [frame EXCEPT !.pc = "parsers", !.m = NoParent,
                  !.first_submatch = NoParent, !.made = {}, !.yielded = <<>>]

\* The frame that runs next.  A frame suspended at `yield m` (commit) is
\* resumed before anything nested in it; with none, the innermost frame runs.
Active(st) ==
    IF \E i \in 1..Len(st) : st[i].pc = "commit"
    THEN CHOOSE i \in 1..Len(st) :
            /\ st[i].pc = "commit"
            /\ \A j \in 1..(i - 1) : st[j].pc # "commit"
    ELSE Len(st)

\* a handle_mimetype without the probe: what the parser yields is passed on
\* at once and the candidate is never put before it
Yield_NoProbe(st, i, v) ==
    [stack |-> [j \in 1..Len(st) |->
                    IF j <= i
                    THEN [st[j] EXCEPT
                            !.yielded = Append(@, v),
                            !.pc = IF @ = "probe" THEN "stream" ELSE @]
                    ELSE st[j]],
     v |-> v]

\* lines 241-251: the parser of frame i hands v to handle_mimetype.  In the
\* probe v becomes first_submatch and the candidate m is yielded instead;
\* while streaming `yield from` passes v on.  What leaves frame i is handed
\* to the parser of frame i - 1, which is inside `yield from match(...)`;
\* what leaves frame 1 reaches the consumer.
RECURSIVE Yield(_, _, _)
Yield(st, i, v) ==
    IF i = 0 THEN [stack |-> st, v |-> v]
    ELSE LET f == [st[i] EXCEPT !.yielded = Append(@, v)] IN
         IF st[i].pc = "probe"
         THEN Yield([st EXCEPT ![i] = [f EXCEPT !.pc = "commit",
                                                !.first_submatch = v]],
                    i - 1, f.m)
         ELSE Yield([st EXCEPT ![i] = f], i - 1, v)

\* FileStream.__enter__ and __exit__, as the `with` statements of lines 240
\* and 269 call them: the window of frame i (f: of match, fs: of the
\* attempt) is entered, and left when its block is left
Enter(w, window) == w \cup {window}
Leave(w, windows) == w \ windows

\* a handle_mimetype without `except Exception`: the exception leaves every
\* frame and reaches the consumer
Raise_Propagate(st, w, i) == [stack |-> <<>>, windows |-> {}, caught |-> 0]

\* lines 239-256 and 269: an exception other than InvalidMatch leaves the
\* parser of frame i.  In the probe nothing catches it: both with blocks
\* are left, match ends and the exception is raised in the parser of the
\* frame below.  While streaming, `except Exception` logs it, the with
\* block is left and the next parser is tried.
RECURSIVE Raise(_, _, _)
Raise(st, w, i) ==
    IF i = 0 THEN [stack |-> st, windows |-> w, caught |-> 0]
    ELSE IF st[i].pc = "probe"
         THEN Raise(SubSeq(st, 1, i - 1),
                    Leave(w, {<<i, "fs">>, <<i, "f">>}), i - 1)
         ELSE [stack |-> [st EXCEPT ![i] = EndAttempt(st[i])],
               windows |-> Leave(w, {<<i, "fs">>}),
               caught |-> i]

\* a close that drops the frames and leaves their windows entered
CloseAll_Leak(st, w) == [stack |-> <<>>, windows |-> w]

\* generator.close(): GeneratorExit is raised at the yield each frame is
\* suspended at; no handler catches it and every with block is left
CloseAll(st, w) ==
    [stack |-> <<>>,
     windows |-> Leave(w, {<<i, k>> : i \in 1..Len(st), k \in {"f", "fs"}})]

InitMatch ==
    /\ parse = TRUE
    /\ stack = <<>>
    /\ out = <<>>
    /\ status = "idle"
    /\ atYield = FALSE
    /\ openWindows = {}
    /\ invoked = 0
    /\ rejected = {}
    /\ faulted = {}

Init == InitSearch /\ InitRuns /\ InitReg /\ InitTree /\ InitMatch

(***************************************************************************)
(* Actions of the registry and of the tree.                                *)
(***************************************************************************)
\* register_parser(*filetypes)(parser), before matching starts
Register(parser, filetypes) ==
    /\ status = "idle"
    /\ parser.kind = "function" => wrappers < MaxWrappers
    /\ PARSERS' = register_parser(PARSERS, filetypes, parser, wrappers + 1)
    /\ wrappers' = IF parser.kind = "function" THEN wrappers + 1 ELSE wrappers
    /\ registered' = registered \cup {<<ft, parser>> : ft \in Range(filetypes)}
    /\ UNCHANGED <<runVars, searchVars, nodes, matchVars>>

NextReg ==
    \E parser \in Capabilities, filetypes \in FiletypeArgs :
        Register(parser, filetypes)

MaxTreeNodes == 3   \* nodes of a tree built directly from Match(...)
TreeOffsets == {0, 10, 20, 100}
TreeLengths == {NoLength, 3, 5}

\* Match(name, match_obj, relative_offset, length, parent, matcher)
Construct(relative_offset, len, parent) ==
    /\ Len(nodes) < MaxTreeNodes
    /\ nodes' = NewMatch(nodes, "t", relative_offset, len, parent)
    /\ UNCHANGED <<runVars, searchVars, regVars, matchVars>>

NextTree ==
    \E relative_offset \in TreeOffsets, len \in TreeLengths,
       parent \in 0..Len(nodes) :
        Construct(relative_offset, len, parent)

(***************************************************************************)
(* Actions of the matcher.                                                 *)
(***************************************************************************)
Top == stack[Len(stack)]

\* the innermost frame runs (no frame is waiting to be resumed at `yield m`)
TopRuns == status = "running" /\ stack # <<>> /\ Active(stack) = Len(stack)

SetTop(f) == [stack EXCEPT ![Len(stack)] = f]

\* Matcher(parse=p).match(file) and the first pull: line 269 enters the window
MatchStart(p) ==
    /\ status = "idle"
    /\ parse' = p
    /\ stack' = <<Frame(NoParent)>>
    /\ openWindows' = Enter(openWindows, <<1, "f">>)
    /\ status' = "running"
    /\ UNCHANGED <<runVars, searchVars, regVars, nodes, out, atYield, invoked,
                   rejected, faulted>>

\* lines 274-275: a result without a MIME pattern is skipped
ResultNoMime ==
    /\ TopRuns /\ Top.pc = "results"
    /\ Len(Top.seen) < MaxResults
    /\ stack' = SetTop([Top EXCEPT !.seen = Append(@, NoMime)])
    /\ atYield' = FALSE
    /\ UNCHANGED <<runVars, searchVars, regVars, nodes, parse, out, status,
                   openWindows, invoked, rejected, faulted>>

\* lines 276-278: a result whose mimetype was matched before is skipped
ResultDuplicate(mimetype) ==
    /\ TopRuns /\ Top.pc = "results"
    /\ Len(Top.seen) < MaxResults
    /\ AlreadyMatched(Top, mimetype)
    /\ stack' = SetTop([Top EXCEPT !.seen = Append(@, mimetype)])
    /\ atYield' = FALSE
    /\ UNCHANGED <<runVars, searchVars, regVars, nodes, parse, out, status,
                   openWindows, invoked, rejected, faulted>>

\* lines 279-280 and 219-227: handle_mimetype is entered with parse set;
\* PARSERS[mimetype] is read, which stores a missing key
ResultAccepted(mimetype) ==
    /\ TopRuns /\ Top.pc = "results"
    /\ Len(Top.seen) < MaxResults
    /\ ~AlreadyMatched(Top, mimetype)
    /\ parse
    /\ PARSERS' = Touch(PARSERS, mimetype)
    /\ stack' = SetTop([Top EXCEPT
            !.seen = Append(@, mimetype),
            !.matched_mimetypes = @ \cup {mimetype},
            !.handled = Append(@, mimetype),
            !.mimetype = mimetype,
            !.todo = Lookup(PARSERS, mimetype),
            !.pc = "parsers"])
    /\ atYield' = FALSE
    /\ UNCHANGED <<runVars, searchVars, wrappers, registered, nodes, parse, out,
                   status, openWindows, invoked, rejected, faulted>>

\* lines 279-280 and 257-266: without parse one leaf Match is yielded
ResultLeaf(mimetype) ==
    /\ TopRuns /\ Top.pc = "results"
    /\ Len(Top.seen) < MaxResults
    /\ ~AlreadyMatched(Top, mimetype)
    /\ ~parse
    /\ Len(nodes) < MaxNodes
    /\ nodes' = NewMatch(nodes, mimetype, 0, DataLen, Top.parent)
    /\ LET r == Yield(SetTop([Top EXCEPT
                        !.seen = Append(@, mimetype),
                        !.matched_mimetypes = @ \cup {mimetype},
                        !.handled = Append(@, mimetype)]),
                      Len(stack) - 1, Len(nodes) + 1)
       IN  /\ stack' = r.stack
           /\ out' = Append(out, r.v)
    /\ atYield' = TRUE
    /\ UNCHANGED runVars
    /\ UNCHANGED <<searchVars, regVars, parse, status, openWindows, invoked,
                   rejected, faulted>>

\* lines 269-280: the engine has no further result; the window of match is
\* left and the generator returns, to the parser that called it or to the
\* consumer
ResultsExhausted ==
    /\ TopRuns /\ Top.pc = "results"
    /\ stack' = SubSeq(stack, 1, Len(stack) - 1)
    /\ openWindows' = Leave(openWindows, {<<Len(stack), "f">>})
    /\ status' = IF Len(stack) = 1 THEN "exhausted" ELSE status
    /\ atYield' = FALSE
    /\ UNCHANGED runVars
    /\ UNCHANGED <<searchVars, regVars, nodes, parse, out, invoked, rejected,
                   faulted>>

\* line 227: the for loop over PARSERS[mimetype] has no parser left
AttemptsDone ==
    /\ TopRuns /\ Top.pc = "parsers"
    /\ Top.todo = {}
    /\ stack' = SetTop([Top EXCEPT !.pc = "results", !.mimetype = NoMime])
    /\ atYield' = FALSE
    /\ UNCHANGED <<runVars, searchVars, regVars, nodes, parse, out, status,
                   openWindows, invoked, rejected, faulted>>

\* lines 227-243: the next parser (a set has no fixed order); the candidate
\* is constructed, the window is entered and the parser is called
Attempt(parser) ==
    /\ TopRuns /\ Top.pc = "parsers"
    /\ parser \in Top.todo
    /\ Len(nodes) < MaxNodes
    /\ nodes' = NewMatch(nodes, Top.mimetype, 0, DataLen, Top.parent)
    /\ stack' = SetTop([Top EXCEPT !.todo = @ \ {parser},
                                   !.m = Len(nodes) + 1,
                                   !.pc = "probe"])
    /\ openWindows' = Enter(openWindows, <<Len(stack), "fs">>)
    /\ invoked' = invoked + 1
    /\ atYield' = FALSE
    /\ UNCHANGED <<runVars, searchVars, regVars, parse, out, status, rejected,
                   faulted>>

ParserRuns == TopRuns /\ Top.pc \in {"probe", "stream"}

\* the parser constructs Submatch(..., parent=m) and keeps it for now
ParserConstruct ==
    /\ ParserRuns
    /\ Len(nodes) < MaxNodes
    /\ nodes' = NewMatch(nodes, "sub", 1, 2, Top.m)
    /\ stack' = SetTop([Top EXCEPT !.made = @ \cup {Len(nodes) + 1}])
    /\ atYield' = FALSE
    /\ UNCHANGED runVars
    /\ UNCHANGED <<searchVars, regVars, parse, out, status, openWindows,
                   invoked, rejected, faulted>>

\* the parser yields a Submatch it has constructed
ParserYield(c) ==
    /\ ParserRuns
    /\ c \in Top.made
    /\ LET r == Yield(SetTop([Top EXCEPT !.made = @ \ {c}]), Len(stack), c)
       IN  /\ stack' = r.stack
           /\ out' = Append(out, r.v)
    /\ atYield' = TRUE
    /\ UNCHANGED runVars
    /\ UNCHANGED <<searchVars, regVars, nodes, parse, status, openWindows,
                   invoked, rejected, faulted>>

\* lines 245-247: the parser returns without an element: has_first is
\* False and the candidate is yielded
ParserEmpty ==
    /\ ParserRuns /\ Top.pc = "probe"
    /\ LET r == Yield(SetTop([Top EXCEPT !.pc = "commit"]),
                      Len(stack) - 1, Top.m)
       IN  /\ stack' = r.stack
           /\ out' = Append(out, r.v)
    /\ atYield' = TRUE
    /\ UNCHANGED runVars
    /\ UNCHANGED <<searchVars, regVars, nodes, parse, status, openWindows,
                   invoked, rejected, faulted>>

\* line 251: the parser returns after its elements; the with block is left
ParserDone ==
    /\ ParserRuns /\ Top.pc = "stream"
    /\ stack' = SetTop(EndAttempt(Top))
    /\ openWindows' = Leave(openWindows, {<<Len(stack), "fs">>})
    /\ atYield' = FALSE
    /\ UNCHANGED runVars
    /\ UNCHANGED <<searchVars, regVars, nodes, parse, out, status, invoked,
                   rejected, faulted>>

\* lines 243 and 255-256: InvalidMatch out of the probe; the with block is
\* left, the exception is swallowed and the next parser is tried
RejectInProbe ==
    /\ ParserRuns /\ Top.pc = "probe"
    /\ stack' = SetTop(EndAttempt(Top))
    /\ openWindows' = Leave(openWindows, {<<Len(stack), "fs">>})
    /\ rejected' = rejected \cup {Top.m}
    /\ atYield' = FALSE
    /\ UNCHANGED runVars
    /\ UNCHANGED <<searchVars, regVars, nodes, parse, out, status, invoked,
                   faulted>>

\* lines 251-254: InvalidMatch while streaming is an Exception: logged
InvalidMatchInStream ==
    /\ ParserRuns /\ Top.pc = "stream"
    /\ stack' = SetTop(EndAttempt(Top))
    /\ openWindows' = Leave(openWindows, {<<Len(stack), "fs">>})
    /\ atYield' = FALSE
    /\ UNCHANGED runVars
    /\ UNCHANGED <<searchVars, regVars, nodes, parse, out, status, invoked,
                   rejected, faulted>>

\* the parser raises an exception that is not an InvalidMatch
ParserFault ==
    /\ ParserRuns
    /\ LET r == Raise(stack, openWindows, Len(stack)) IN
        /\ stack' = r.stack
        /\ openWindows' = r.windows
        /\ status' = IF r.caught = 0 THEN "fault" ELSE status
        /\ faulted' = IF r.caught = 0 THEN faulted
                      ELSE faulted \cup {[m |-> stack[r.caught].m,
                                          yielded |-> stack[r.caught].yielded]}
    /\ atYield' = FALSE
    /\ UNCHANGED runVars
    /\ UNCHANGED <<searchVars, regVars, nodes, parse, out, invoked, rejected>>

\* the parser runs `yield from match.matcher.match(stream, parent=match)`:
\* a nested match generator is pulled and enters its window
ParserRecurse ==
    /\ ParserRuns
    /\ Len(stack) < MaxDepth
    /\ stack' = Append(stack, Frame(Top.m))
    /\ openWindows' = Enter(openWindows, <<Len(stack) + 1, "f">>)
    /\ atYield' = FALSE
    /\ UNCHANGED runVars
    /\ UNCHANGED <<searchVars, regVars, nodes, parse, out, status, invoked,
                   rejected, faulted>>

\* lines 247-251: the consumer pulls again and a frame suspended at
\* `yield m` goes on: first_submatch is yielded and the rest is streamed,
\* or without one the with block is left
Resume ==
    /\ status = "running" /\ stack # <<>>
    /\ LET a == Active(stack) IN
        /\ stack[a].pc = "commit"
        /\ IF stack[a].first_submatch # NoParent
           THEN LET r == Yield([stack EXCEPT ![a].pc = "stream",
                                             ![a].first_submatch = NoParent],
                               a - 1, stack[a].first_submatch)
                IN  /\ stack' = r.stack
                    /\ out' = Append(out, r.v)
                    /\ atYield' = TRUE
                    /\ UNCHANGED openWindows
           ELSE /\ stack' = [stack EXCEPT ![a] = EndAttempt(stack[a])]
                /\ openWindows' = Leave(openWindows, {<<a, "fs">>})
                /\ atYield' = FALSE
                /\ UNCHANGED out
    /\ UNCHANGED <<runVars, searchVars, regVars, nodes, parse, status, invoked,
                   rejected, faulted>>

\* the consumer closes the sequence instead of pulling again
ConsumerClose ==
    /\ status = "running"
    /\ atYield
    /\ LET r == CloseAll(stack, openWindows) IN
        /\ stack' = r.stack
        /\ openWindows' = r.windows
    /\ status' = "closed"
    /\ atYield' = FALSE
    /\ UNCHANGED runVars
    /\ UNCHANGED <<searchVars, regVars, nodes, parse, out, invoked, rejected,
                   faulted>>

\* the parsers registered before a run: Parser instances, each under one
\* type per call
NextMatch ==
    \/ \E parser \in ParserInstances, mimetype \in Mimes :
            Register(parser, <<mimetype>>)
    \/ \E p \in BOOLEAN : MatchStart(p)
    \/ ResultNoMime
    \/ \E mimetype \in Mimes : ResultDuplicate(mimetype)
    \/ \E mimetype \in Mimes : ResultAccepted(mimetype)
    \/ \E mimetype \in Mimes : ResultLeaf(mimetype)
    \/ ResultsExhausted
    \/ AttemptsDone
    \/ \E parser \in ParserInstances : Attempt(parser)
    \/ ParserConstruct
    \/ \E c \in 1..MaxNodes : ParserYield(c)
    \/ ParserEmpty
    \/ ParserDone
    \/ RejectInProbe
    \/ InvalidMatchInStream
    \/ ParserFault
    \/ ParserRecurse
    \/ Resume
    \/ ConsumerClose

(***************************************************************************)
(* The specifications: one per component, from the common initial state.   *)
(***************************************************************************)
SpecSearch == Init /\ [][NextSearch]_vars
SpecTrie == Init /\ [][NextTrie]_vars
SpecRuns == Init /\ [][NextRuns]_vars
SpecReg == Init /\ [][NextReg]_vars
SpecTree == Init /\ [][NextTree]_vars
SpecMatch == Init /\ [][NextMatch]_vars

(***************************************************************************)
(* Properties of the search.                                               *)
(***************************************************************************)

\* (i, s): s occurs in T with its last element at index i (0-based)
Occurrences(S, T) ==
    {x \in (0..(Len(T) - 1)) \X S :
        /\ x[1] + 1 >= Len(x[2])
        /\ SubSeq(T, x[1] + 2 - Len(x[2]), x[1] + 1) = x[2]}

\* C1: a search over a finalized automaton that ran to its end has yielded
\* exactly the pairs (i, s) with s an added sequence ending at index i of
\* the input, and such a search does not fail.
C1_SearchExact ==
    (~stale /\ spc \in {"done", "error"}) =>
        /\ spc = "done"
        /\ Range(found) = Occurrences(added, source_sequence)

\* every source of the trie sits on the node its own elements lead to
WellFormed == \A p \in DOMAIN trie : \A s \in trie[p].sources : s = p

\* C8: after a sequence was added to a finalized trie and finalize was not
\* run again, a search that ends normally has still yielded exactly the
\* occurrences of the sequences in the trie (the other outcome allowed is an
\* error).  Stated for tries whose sources all sit on their own path, so
\* that a wrong result is due to the missing finalize alone.
C8_MisuseNotSilent ==
    (stale /\ WellFormed /\ spc = "done") =>
        Range(found) = Occurrences(added, source_sequence)

\* line 209, to_search[offset:offset+len(match)]: a slice stops at the end
\* of the sequence
Slice(T, from, to) ==
    SubSeq(T, from + 1, IF to < Len(T) THEN to ELSE Len(T))

\* C11: for every pair (offset, match) a search of a finalized automaton has
\* yielded, the slice of the input that starts at offset and has the length
\* of match equals match.
C11_SliceAssertion ==
    ~stale =>
        \A i \in 1..Len(found) :
            Slice(source_sequence, found[i][1], found[i][1] + Len(found[i][2]))
                = found[i][2]

\* p is a prefix of s
StartsWith(s, p) == Len(p) <= Len(s) /\ SubSeq(s, 1, Len(p)) = p

\* C13: after any sequence of add calls every added sequence is the root
\* path of a node that holds it as a source, find is true for exactly the
\* added sequences and find_prefix yields exactly the added sequences that
\* start with the prefix.
C13_InsertionPath ==
    /\ \A s \in added : s \in DOMAIN trie /\ s \in trie[s].sources
    /\ \A s \in Patterns : find(trie, Root, s) <=> s \in added
    /\ \A q \in SeqsUpTo(MaxSeqLen) :
            find_prefix(trie, Root, q) = {s \in added : StartsWith(s, q)}

\* the longest proper suffix of the path p that is a path of the trie; the
\* empty path, the root, when no other is
LongestSuffix(t, p) ==
    LET drop == {k \in 1..Len(p) : SubSeq(p, k + 1, Len(p)) \in DOMAIN t}
        least == CHOOSE k \in drop : \A j \in drop : k <= j
    IN  SubSeq(p, least + 1, Len(p))

C19_DuplicatesDistinct ==
    (spc = "done" /\ ~stale /\ adds = 2 /\ Cardinality(added) = 1) =>
        \A x \in Occurrences(added, source_sequence) :
            Cardinality({i \in 1..Len(found) : found[i] = x}) = 2

\* C20: the pairs a search yields come in the order of their positions, and
\* those of one position with the longer source first.
C20_EmissionOrder ==
    ~stale =>
        \A i \in 1..(Len(found) - 1) :
            \/ found[i][1] < found[i + 1][1]
            \/ /\ found[i][1] = found[i + 1][1]
               /\ Len(found[i][2]) >= Len(found[i + 1][2])

\* a is the beginning of b
IsPrefix(a, b) == Len(a) <= Len(b) /\ a = SubSeq(b, 1, Len(a))

EntriesFor(ft, cap) ==
    {p \in Lookup(PARSERS, ft) :
        \/ p = cap
        \/ /\ cap.kind = "function"
           /\ p.kind = "ParserFunctionWrapper"
           /\ p.parser = cap.parser}

\* C6: however often a capability (a Parser instance or a plain function)
\* was registered under a MIME type, PARSERS[mime] holds exactly one entry
\* for it.
C6_IdempotentRegistration ==
    \A r \in registered : Cardinality(EntriesFor(r[1], r[2])) = 1

\* C7: every node's offset is its parent's offset plus its relative offset
\* (its relative offset for a root); its length is the explicit length, or
\* else the largest child.offset + child.length minus its own offset, or 0
\* without children.  The root at 100 with children at 10 (length 5) and 20
\* (length 3) has offset 100 and length 23.
C7_OffsetLength ==
    /\ \A i \in 1..Len(nodes) :
        /\ offset(nodes, i) =
                IF nodes[i].parent = NoParent
                THEN nodes[i].relative_offset
                ELSE offset(nodes, nodes[i].parent) + nodes[i].relative_offset
        /\ nodes[i].length # NoLength => length(nodes, i) = nodes[i].length
        /\ (nodes[i].length = NoLength /\ nodes[i].children = <<>>) =>
                length(nodes, i) = 0
        /\ (nodes[i].length = NoLength /\ nodes[i].children # <<>>) =>
                /\ \A c \in Range(nodes[i].children) :
                      offset(nodes, c) + length(nodes, c)
                          <= offset(nodes, i) + length(nodes, i)
                /\ \E c \in Range(nodes[i].children) :
                      offset(nodes, c) + length(nodes, c)
                          = offset(nodes, i) + length(nodes, i)
    /\ (/\ Len(nodes) = 3
        /\ nodes[1].parent = NoParent /\ nodes[1].relative_offset = 100
        /\ nodes[1].length = NoLength
        /\ nodes[2].parent = 1 /\ nodes[2].relative_offset = 10
        /\ nodes[2].length = 5
        /\ nodes[3].parent = 1 /\ nodes[3].relative_offset = 20
        /\ nodes[3].length = 3)
       => (offset(nodes, 1) = 100 /\ length(nodes, 1) = 23)

\* the tree of the example, and a grandchild under a node of inferred length
C7_Witness ==
    /\ Len(nodes) = 3
    /\ nodes[1].parent = NoParent /\ nodes[1].relative_offset = 100
    /\ nodes[1].length = NoLength
    /\ nodes[2].parent = 1 /\ nodes[2].relative_offset = 10
    /\ nodes[2].length = 5
    /\ nodes[3].parent = 1 /\ nodes[3].relative_offset = 20
    /\ nodes[3].length = 3
    /\ length(nodes, 1) = 23

(***************************************************************************)
(* Properties of the matcher.                                              *)
(***************************************************************************)
\* C2: a candidate rejected by InvalidMatch in the probe is never emitted
\* and is in no node's list of children.
C2_RejectionTransparent ==
    \A r \in rejected :
        /\ r \notin Range(out)
        /\ \A i \in 1..Len(nodes) : r \notin Range(nodes[i].children)

\* C3: no failure of a parser ends the run: no exception reaches the
\* consumer of the sequence.
C3_FailureIsolation == status # "fault"

\* C4: when a parser failed (not with InvalidMatch) after yielding k >= 1
\* elements, the candidate and the k elements have been emitted and every
\* child attached to the candidate is one of the k elements.
C4_PartialFailureContained ==
    \A f \in faulted :
        /\ Len(f.yielded) >= 1
        /\ f.m \in Range(out)
        /\ Range(f.yielded) \subseteq Range(out)
        /\ Range(nodes[f.m].children) \subseteq Range(f.yielded)

\* the mimetypes of a sequence of results, each at its first occurrence
RECURSIVE FirstOccurrences(_)
FirstOccurrences(results) ==
    IF results = <<>> THEN <<>>
    ELSE LET front == SubSeq(results, 1, Len(results) - 1)
             last == results[Len(results)]
         IN  IF last = NoMime \/ last \in Range(front)
             THEN FirstOccurrences(front)
             ELSE Append(FirstOccurrences(front), last)

\* a step in which a window consumes a result whose mimetype it has seen
DuplicateConsumed ==
    \E i \in 1..Len(stack) :
        /\ i <= Len(stack')
        /\ Len(stack'[i].seen) = Len(stack[i].seen) + 1
        /\ stack'[i].seen[Len(stack'[i].seen)]
                \in Range(stack[i].seen) \ {NoMime}

\* C5: in every window handle_mimetype is entered once per distinct MIME
\* string, for its first result in engine order, and the step that consumes
\* a later result with that string constructs no node, invokes no parser
\* and emits nothing.
C5_Deduplication ==
    /\ [](\A i \in 1..Len(stack) :
            stack[i].handled = FirstOccurrences(stack[i].seen))
    /\ [][DuplicateConsumed =>
            (nodes' = nodes /\ invoked' = invoked /\ out' = out)]_vars

\* a window has consumed the same mimetype twice after every parser of the
\* first expansion rejected it
C5_Witness ==
    /\ stack # <<>>
    /\ stack[1].seen = <<"m1", "m1">>
    /\ stack[1].handled = <<"m1">>
    /\ invoked = 2
    /\ Cardinality(rejected) = 2
    /\ out = <<>>

\* C9: the run is stopped by a resource-exhaustion error before both the
\* nesting depth and the number of nodes have grown as far as the
\* exploration follows them: one of the two stays under a cap.
C9_ResourceCap ==
    \/ Len(stack) < MaxDepth
    \/ Len(nodes) < MaxNodes
    \/ status = "resource_exhausted"

\* the windows the live frames are inside of
WindowsOf(st) ==
    {<<i, "f">> : i \in 1..Len(st)} \cup
    {<<i, "fs">> : i \in {j \in 1..Len(st) :
                            st[j].pc \in {"probe", "commit", "stream"}}}

\* C10: the windows entered and not left are exactly those of the live
\* frames, so each is left on whatever path its frame ends; once the run is
\* over (exhausted, failed or closed by the consumer) no frame and no window
\* is left; and after the consumer closed the sequence no result is
\* consumed, no parser is invoked and nothing is emitted.
C10_ScopedWindows ==
    /\ [](/\ openWindows = WindowsOf(stack)
          /\ status \in {"exhausted", "fault", "closed"} =>
                (stack = <<>> /\ openWindows = {}))
    /\ [][status = "closed" =>
            (stack' = <<>> /\ invoked' = invoked /\ out' = out)]_vars

\* the consumer closed the sequence while two nested windows and the window
\* of a parser were entered
C10_Witness ==
    /\ status = "closed"
    /\ openWindows = {}
    /\ \E i \in 1..Len(out) : nodes[out[i]].parent # NoParent
    /\ rejected # {}

(***************************************************************************)
(* Properties of the attempts of handle_mimetype and of what is emitted.   *)
(***************************************************************************)
\* the changes of a frame's position that the code of lines 226-256 and
\* 272-280 allows: an attempt is probe (Probing), commit (Committed: the
\* candidate is being yielded), stream (Streaming); "parsers" is between
\* two attempts of one MIME type (Rejected or Done), "results" between two
\* MIME types
Edges ==
    {<<"results", "parsers">>, <<"parsers", "results">>,
     <<"parsers", "probe">>,
     <<"probe", "commit">>, <<"probe", "parsers">>,
     <<"commit", "stream">>, <<"commit", "parsers">>,
     <<"stream", "parsers">>}

\* a step that takes the candidate of the running attempt as rejected
Rejects ==
    /\ rejected' # rejected
    /\ TopRuns /\ Top.pc = "probe"
    /\ rejected' = rejected \cup {Top.m}
    /\ Top.m \notin Range(out)
    /\ stack'[Len(stack)].pc = "parsers"

\* a step of the parser of a committed attempt that is streaming (the
\* consumer does not close the sequence)
StreamingStep == TopRuns /\ Top.pc = "stream" /\ status' # "closed"

\* C15: an attempt goes probe -> commit -> stream -> over or probe ->
\* rejected and no other way while its frame lives; the candidate of an
\* attempt in the probe, and a rejected candidate, is not emitted; a
\* candidate is taken as rejected only by a step from the probe; whatever
\* the parser of a streaming attempt does, a fault included, at most ends
\* that attempt: what was emitted stays emitted, the run goes on and every
\* enclosing attempt stays where it is.
C15_ProbeCommit ==
    /\ [](/\ \A i \in 1..Len(stack) :
                stack[i].pc = "probe" => stack[i].m \notin Range(out)
          /\ rejected \cap Range(out) = {})
    /\ [][/\ \A i \in 1..Len(stack) :
                i <= Len(stack') =>
                    \/ stack'[i].pc = stack[i].pc
                    \/ <<stack[i].pc, stack'[i].pc>> \in Edges
          /\ rejected' # rejected => Rejects
          /\ StreamingStep =>
                /\ status' = status
                /\ Len(stack') >= Len(stack)
                /\ stack'[Len(stack)].pc \in {"stream", "parsers"}
                /\ \A j \in 1..(Len(stack) - 1) :
                        /\ stack'[j].pc = stack[j].pc
                        /\ stack'[j].m = stack[j].m
                /\ Len(out') >= Len(out)
                /\ SubSeq(out', 1, Len(out)) = out]_vars

\* C15: the parser of a nested attempt failed while streaming, after its
\* candidate and an element were emitted; the enclosing attempt is still
\* streaming and the run goes on
C15_Witness ==
    /\ status = "running"
    /\ Len(stack) = 2
    /\ stack[1].pc = "stream"
    /\ stack[2].pc = "parsers"
    /\ \E f \in faulted :
            /\ nodes[f.m].parent = stack[1].m
            /\ f.m \in Range(out)
            /\ Range(f.yielded) \subseteq Range(out)

\* c is the node x or one of its ancestors
RECURSIVE Within(_, _, _)
Within(ns, c, x) ==
    \/ x = c
    \/ ns[x].parent # NoParent /\ Within(ns, c, ns[x].parent)

\* the first index of x in the sequence s
FirstIndex(s, x) ==
    CHOOSE i \in 1..Len(s) : s[i] = x /\ \A j \in 1..(i - 1) : s[j] # x

\* the last k elements of the sequence s
Last(s, k) == SubSeq(s, Len(s) - k + 1, Len(s))

\* C16: a node with a parent is emitted after its parent (the candidate
\* before every element of its parser); what has been emitted since the
\* candidate of a streaming attempt is what its parser yielded, in that
\* order; the nodes emitted under one candidate are consecutive, so all of
\* one attempt come before any of a later one; and the candidates of the
\* outermost window come in the order in which the engine first reported
\* their MIME types.
C16_EmissionOrder ==
    /\ \A i \in 1..Len(out) :
            nodes[out[i]].parent # NoParent =>
                \E j \in 1..(i - 1) : out[j] = nodes[out[i]].parent
    /\ \A i \in 1..Len(stack) :
            (\A j \in 1..i : stack[j].pc = "stream") =>
                /\ Len(out) >= Len(stack[i].yielded) + 1
                /\ Last(out, Len(stack[i].yielded) + 1)
                        = <<stack[i].m>> \o stack[i].yielded
    /\ \A a, b, c \in 1..Len(out) :
            (a < b /\ b < c /\ Within(nodes, out[a], out[c])) =>
                Within(nodes, out[a], out[b])
    /\ stack # <<>> =>
            /\ stack[1].handled = FirstOccurrences(stack[1].seen)
            /\ \A a, b \in 1..Len(out) :
                    (/\ a < b
                     /\ nodes[out[a]].parent = NoParent
                     /\ nodes[out[b]].parent = NoParent) =>
                        FirstIndex(stack[1].handled, nodes[out[a]].name)
                            <= FirstIndex(stack[1].handled, nodes[out[b]].name)

\* C16: the engine reported m2 before m1; the candidate of m2, an element
\* of its parser and then the candidate of m1 have been emitted
C16_Witness ==
    /\ stack # <<>>
    /\ stack[1].handled = <<"m2", "m1">>
    /\ Len(out) = 3
    /\ nodes[out[1]].name = "m2" /\ nodes[out[1]].parent = NoParent
    /\ nodes[out[2]].parent = out[1]
    /\ nodes[out[3]].name = "m1" /\ nodes[out[3]].parent = NoParent

\* C17: once a run has started no step changes the registry: PARSERS has
\* the same keys and the same set under each key.
C17_RegistryReadOnly == [][status # "idle" => PARSERS' = PARSERS]_vars

\* a node of the MIME type with the offset and length of its test has been
\* emitted for the outermost window
Reported(mimetype) ==
    \E i \in 1..Len(out) :
        /\ nodes[out[i]].name = mimetype
        /\ nodes[out[i]].parent = NoParent
        /\ offset(nodes, out[i]) = 0
        /\ length(nodes, out[i]) = DataLen

\* parsers are registered for the MIME type and every candidate of the
\* outermost window for it was rejected with InvalidMatch
AllRejected(mimetype) ==
    /\ Lookup(PARSERS, mimetype) # {}
    /\ \A c \in 1..Len(nodes) :
            (nodes[c].name = mimetype /\ nodes[c].parent = NoParent) =>
                c \in rejected

\* C18: when the outermost window is between two results, every MIME type
\* it has handled is reported by an emitted node, unless parsers are
\* registered for it and each of them signalled InvalidMatch.
C18_EveryMimeReported ==
    (status = "running" /\ Len(stack) = 1 /\ stack[1].pc = "results") =>
        \A k \in 1..Len(stack[1].handled) :
            \/ Reported(stack[1].handled[k])
            \/ AllRejected(stack[1].handled[k])

====
